---- MODULE Spec2Model ----
(***************************************************************************)
(* Model of generate_shell_completion.py (DataMesh CLI).                   *)
(*                                                                         *)
(* The program holds a command table (COMMANDS, GLOBAL_OPTIONS), three     *)
(* generators that return the text of a bash, a zsh and a fish completion  *)
(* script, and write_completion_files, which writes the three texts and    *)
(* INSTALL.md under completions/.                                          *)
(*                                                                         *)
(* Two specifications:                                                     *)
(*   SpecComplete  the completion the three generated scripts encode for   *)
(*                 a command line (a TAB press on a line), and             *)
(*   Spec          runs of the program against a filesystem that can fail, *)
(*                 and calls of the generators by an importing client.     *)
(*                                                                         *)
(* Words are strings; a word list ("put get list") is the sequence of its  *)
(* words; a text is the sequence of its lines.  Descriptions of commands   *)
(* are left out: no completion candidate depends on them.                  *)
(***************************************************************************)
EXTENDS Integers, Sequences, FiniteSets, TLC

VARIABLES
    \* ---- a TAB press on a command line (SpecComplete)
    asked,        \* the shells that answered the TAB press on the current line
    COMP_WORDS,   \* the words of the line, COMP_WORDS[1] = "datamesh" (bash index 0)
    COMP_CWORD,   \* bash index of the word under the cursor
    COMPREPLY,    \* what the bash function answers
    zshReply,     \* what the zsh function offers
    fishReply,    \* what the fish rules offer
    \* ---- the program and the filesystem (Spec)
    pc,           \* position in __main__ / write_completion_files
    dir,          \* completions: "absent", "dir", or "file" (a non-directory)
    files,        \* the four destinations under completions/
    stdout,       \* lines printed by the current run
    exitCode,     \* exit status of the last run that ended
    runs,         \* number of runs started
    before,       \* files as they were when the current run started
    lastOk,       \* dir and files at the end of the last successful run
    prevOk,       \* TRUE when the run before the current one ended in success
    attempted,    \* destinations whose open was attempted in the current run
    fault,        \* the I/O failure of the current run, "none" if none
    calls,        \* number of generator calls made so far
    firstText,    \* per generator: the first text it returned
    lastText      \* per generator: the latest text it returned

qvars == <<asked, COMP_WORDS, COMP_CWORD, COMPREPLY, zshReply, fishReply>>
svars == <<pc, dir, files, stdout, exitCode, runs, before, lastOk, prevOk,
           attempted, fault, calls, firstText, lastText>>
vars == <<asked, COMP_WORDS, COMP_CWORD, COMPREPLY, zshReply, fishReply,
          pc, dir, files, stdout, exitCode, runs, before, lastOk, prevOk,
          attempted, fault, calls, firstText, lastText>>

----------------------------------------------------------------------------
(* Helpers on sequences of words *)

Range(s) == {s[i] : i \in 1..Len(s)}

RECURSIVE JoinWords(_)
\* "a b c" from <<"a","b","c">>: the space-joined form bash compares
JoinWords(s) ==
    IF Len(s) = 0 THEN ""
    ELSE IF Len(s) = 1 THEN s[1]
    ELSE s[1] \o " " \o JoinWords(Tail(s))

----------------------------------------------------------------------------
(* The command table *)

Leaf(n, opts, as) == [name |-> n, options |-> opts, args |-> as, subcommands |-> <<>>]
Group(n, subs) == [name |-> n, options |-> <<>>, args |-> <<>>, subcommands |-> subs]

COMMANDS == <<
    Group("file", <<
        Leaf("put", <<"--name", "--tags", "--public-key">>, <<"<file_path>">>),
        Leaf("get", <<"--output", "--private-key">>, <<"<identifier>">>),
        Leaf("list", <<"--tags", "--public-key", "--long">>, <<>>),
        Leaf("search", <<"--content", "--limit">>, <<"<query>">>),
        Group("batch", <<
            Leaf("put", <<"--preserve-structure">>, <<"<patterns>...">>),
            Leaf("get", <<"--output-dir">>, <<"<patterns>...">>),
            Leaf("tag", <<"--add", "--remove">>, <<"<patterns>...">>) >>),
        Leaf("share", <<"--with", "--public", "--expires">>, <<"<file>">>) >>),
    Group("network", <<
        Leaf("peers", <<"--long", "--status">>, <<>>),
        Leaf("health", <<"--full", "--monitor">>, <<>>),
        Leaf("topology", <<"--routing", "--output">>, <<>>),
        Leaf("bandwidth", <<"--duration">>, <<"[peer]">>),
        Group("bootstrap", <<
            Leaf("start", <<"--port">>, <<>>),
            Leaf("stop", <<>>, <<>>),
            Leaf("list", <<>>, <<>>),
            Leaf("add", <<>>, <<"<address>">>),
            Leaf("remove", <<>>, <<"<peer_id>">>) >>) >>),
    Group("system", <<
        Group("config", <<
            Leaf("show", <<>>, <<"[section]">>),
            Leaf("set", <<>>, <<"<key>", "<value>">>),
            Leaf("get", <<>>, <<"<key>">>),
            Leaf("init", <<"--output", "--force">>, <<>>),
            Leaf("validate", <<>>, <<"[file]">>) >>),
        Leaf("stats", <<"--long", "--watch">>, <<>>),
        Group("storage", <<
            Leaf("cleanup", <<"--orphaned", "--compact">>, <<>>),
            Leaf("repair", <<"--integrity", "--fix">>, <<>>),
            Leaf("optimize", <<"--defrag", "--rebalance">>, <<>>),
            Leaf("quota", <<"--long">>, <<>>) >>),
        Group("api", <<
            Leaf("start", <<"--port", "--bind">>, <<>>),
            Leaf("stop", <<>>, <<>>),
            Leaf("status", <<>>, <<>>),
            Leaf("docs", <<"--format", "--output">>, <<>>) >>),
        Leaf("benchmark", <<"--test-type", "--duration">>, <<>>) >>),
    Group("governance", <<
        Group("user", <<
            Leaf("register", <<"--password">>, <<"<email>">>),
            Leaf("login", <<"--password">>, <<"<email>">>),
            Leaf("profile", <<>>, <<"[user_id]">>),
            Leaf("update", <<"--email", "--password">>, <<>>) >>),
        Group("proposal", <<
            Leaf("list", <<"--active", "--proposal-type">>, <<>>),
            Leaf("create", <<"--proposal-type">>, <<"<title>", "<description>">>),
            Leaf("show", <<>>, <<"<proposal_id>">>) >>),
        Leaf("vote", <<"--reason">>, <<"<proposal_id>", "<vote>">>),
        Group("economics", <<
            Leaf("balance", <<>>, <<"[user_id]">>),
            Leaf("transfer", <<"--memo">>, <<"<to>", "<amount>">>),
            Leaf("stake", <<"--duration">>, <<"<amount>">>),
            Leaf("history", <<"--limit">>, <<>>) >>) >>),
    Leaf("interactive", <<>>, <<>>),
    Group("service", <<
        Leaf("start", <<"--foreground">>, <<>>),
        Leaf("stop", <<>>, <<>>),
        Leaf("restart", <<>>, <<>>),
        Leaf("status", <<>>, <<>>),
        Leaf("logs", <<"--follow", "--lines">>, <<>>) >>),
    Leaf("status", <<>>, <<>>),
    Leaf("guide", <<>>, <<"[topic]">>) >>

GLOBAL_OPTIONS == <<"--format", "-f", "--verbose", "-v", "--no-color",
                    "--config", "-c", "--interactive", "-i", "--dry-run",
                    "--help", "-h">>

\* The table's root: the dict COMMANDS itself, a group without a name
Root == Group("", COMMANDS)

Names(nodes) == [i \in 1..Len(nodes) |-> nodes[i].name]

IsGroup(node) == Len(node.subcommands) > 0

Child(node, n) ==
    node.subcommands[CHOOSE i \in 1..Len(node.subcommands) : node.subcommands[i].name = n]

RECURSIVE PathsFrom(_)
\* every command path below a node, the empty path (the node itself) included
PathsFrom(node) ==
    {<<>>} \cup UNION {
        {<<node.subcommands[i].name>> \o p : p \in PathsFrom(node.subcommands[i])}
            : i \in 1..Len(node.subcommands)}

CommandPaths == PathsFrom(Root)

RECURSIVE NodeAt(_, _)
\* the node a command path of the table leads to
NodeAt(node, path) ==
    IF Len(path) = 0 THEN node ELSE NodeAt(Child(node, Head(path)), Tail(path))

Resolve(path) == NodeAt(Root, path)

GroupPaths == {p \in CommandPaths : IsGroup(Resolve(p))}
LeafPaths == {p \in CommandPaths : ~IsGroup(Resolve(p))}

AllNames == UNION {Range(p) : p \in CommandPaths}
AllOptions == UNION {Range(Resolve(p).options) : p \in CommandPaths}

----------------------------------------------------------------------------
(* Words and replies *)

\* The words of the model that begin with "-": the options of the table, the
\* global options, and -o, which the bash and fish scripts name for "file get"
DashWords == Range(GLOBAL_OPTIONS) \cup AllOptions \cup {"-o"}

\* bash: [[ "$word" =~ ^- ]]
StartsWithDash(w) == w \in DashWords

\* What a completion offers: candidate words, and whether file names are offered.
\* bash's COMPREPLY is an array, in the order compgen -W lists the words; zsh and
\* fish collect a set of matches
Reply(ws, fs) == [words |-> ws, files |-> fs]
NoReply == Reply({}, FALSE)
NoArray == Reply(<<>>, FALSE)

----------------------------------------------------------------------------
(* The bash script, as generate_bash_completion writes it *)

BashGlobalOpts == <<"--format", "-f", "--verbose", "-v", "--no-color", "--config",
                    "-c", "--interactive", "-i", "--dry-run", "--help", "-h">>

BashCommands == <<"file", "network", "system", "governance", "interactive",
                  "service", "status", "guide">>

\* case ${prev} in ... esac over the global options that take a value
BashPrevCases == <<
    [pats |-> {"--format", "-f"}, words |-> <<"table", "json", "compact", "csv">>,
     files |-> FALSE],
    [pats |-> {"--config", "-c"}, words |-> <<>>, files |-> TRUE] >>

\* A branch that offers a word list: COMPREPLY=( $(compgen -W "..." -- ${cur}) )
W(pat, ws) == [pat |-> pat, kind |-> "words", words |-> ws, arms |-> <<>>]
\* A branch that is a case on ${prev}; an arm either returns or offers file names
P(pat, arms) == [pat |-> pat, kind |-> "prev", words |-> <<>>, arms |-> arms]
Arm(pats, act) == [pats |-> pats, act |-> act]

\* case "$cmd_path" in ... esac, in the order of the script
BashPathCases == <<
    W("", BashCommands \o BashGlobalOpts),
    W("file", <<"put", "get", "list", "search", "batch", "share">>),
    P("file put", <<Arm({"--name", "--tags", "--public-key"}, "return"),
                    Arm({"*"}, "files")>>),
    P("file get", <<Arm({"--output", "-o"}, "files"),
                    Arm({"--private-key"}, "return")>>),
    W("file list", <<"--tags", "--public-key", "--long">>),
    W("file search", <<"--content", "--limit">>),
    W("file batch", <<"put", "get", "tag">>),
    W("file share", <<"--with", "--public", "--expires">>),
    W("network", <<"peers", "health", "topology", "bandwidth", "bootstrap">>),
    W("network peers", <<"--long", "--status">>),
    W("network health", <<"--full", "--monitor">>),
    W("network topology", <<"--routing", "--output">>),
    W("network bandwidth", <<"--duration">>),
    W("network bootstrap", <<"start", "stop", "list", "add", "remove">>),
    W("system", <<"config", "stats", "storage", "api", "benchmark">>),
    W("system config", <<"show", "set", "get", "init", "validate">>),
    W("system stats", <<"--long", "--watch">>),
    W("system storage", <<"cleanup", "repair", "optimize", "quota">>),
    W("system api", <<"start", "stop", "status", "docs">>),
    W("governance", <<"user", "proposal", "vote", "economics">>),
    W("governance user", <<"register", "login", "profile", "update">>),
    W("governance proposal", <<"list", "create", "show">>),
    W("governance economics", <<"balance", "transfer", "stake", "history">>),
    W("service", <<"start", "stop", "restart", "status", "logs">>),
    W("*", BashGlobalOpts) >>

\* Mutant of BashBranch: the default branch *) is tried before the others
BashBranchDefaultFirst(cmd_path) ==
    BashPathCases[CHOOSE i \in 1..Len(BashPathCases) :
        /\ BashPathCases[i].pat \in {cmd_path, "*"}
        /\ \A j \in (i + 1)..Len(BashPathCases) :
              BashPathCases[j].pat \notin {cmd_path, "*"}]

\* The branch bash takes for a command path: the first whose pattern matches
BashBranch(cmd_path) ==
    BashPathCases[CHOOSE i \in 1..Len(BashPathCases) :
        /\ BashPathCases[i].pat \in {cmd_path, "*"}
        /\ \A j \in 1..(i - 1) : BashPathCases[j].pat \notin {cmd_path, "*"}]

\* TRUE when the script has a branch for exactly this command path
BashHasBranch(cmd_path) ==
    \E i \in 1..Len(BashPathCases) : BashPathCases[i].pat = cmd_path

\* The inner case ${prev} of a branch: the first arm that matches decides
BashArms(arms, prev) ==
    IF \E i \in 1..Len(arms) : prev \in arms[i].pats \/ "*" \in arms[i].pats
    THEN LET i == CHOOSE k \in 1..Len(arms) :
                    /\ (prev \in arms[k].pats \/ "*" \in arms[k].pats)
                    /\ \A j \in 1..(k - 1) :
                          ~(prev \in arms[j].pats \/ "*" \in arms[j].pats)
         IN IF arms[i].act = "files" THEN Reply(<<>>, TRUE) ELSE NoArray
    ELSE NoArray

\* What a branch offers, given the previous word
BashOffer(branch, prev) ==
    IF branch.kind = "words" THEN Reply(branch.words, FALSE)
    ELSE BashArms(branch.arms, prev)

RECURSIVE BashCmdPath(_, _, _, _)
\* The while loop over COMP_WORDS[1 .. COMP_CWORD-1] (bash indices): every word
\* that does not begin with "-" is appended to cmd_path
BashCmdPath(words, cword, i, cmd_path) ==
    IF i < cword
    THEN LET word == words[i + 1]
         IN BashCmdPath(words, cword, i + 1,
                IF ~StartsWithDash(word)
                THEN (IF cmd_path = "" THEN word ELSE cmd_path \o " " \o word)
                ELSE cmd_path)
    ELSE cmd_path

\* Mutant of BashCompletion: the case on "$cmd_path" comes first, and the case
\* on ${prev} for the global options is reached only from the default branch
BashCompletionPathFirst(words, cword) ==
    LET prev == words[cword]
        cmd_path == BashCmdPath(words, cword, 1, "")
    IN IF BashHasBranch(cmd_path)
       THEN BashOffer(BashBranch(cmd_path), prev)
       ELSE IF \E i \in 1..Len(BashPrevCases) : prev \in BashPrevCases[i].pats
       THEN LET c == BashPrevCases[CHOOSE i \in 1..Len(BashPrevCases) :
                                        prev \in BashPrevCases[i].pats]
            IN Reply(c.words, c.files)
       ELSE BashOffer(BashBranch(cmd_path), prev)

\* Mutant of BashCompletion: the case on ${prev} for the global options is
\* missing, the command path always decides
BashCompletionNoPrevCase(words, cword) ==
    BashOffer(BashBranch(BashCmdPath(words, cword, 1, "")), words[cword])

\* _datamesh_completion with an empty current word: words[k + 1] is bash's
\* COMP_WORDS[k]
BashCompletion(words, cword) ==
    LET prev == words[cword]
    IN IF \E i \in 1..Len(BashPrevCases) : prev \in BashPrevCases[i].pats
       THEN LET c == BashPrevCases[CHOOSE i \in 1..Len(BashPrevCases) :
                                        prev \in BashPrevCases[i].pats]
            IN Reply(c.words, c.files)
       ELSE BashOffer(BashBranch(BashCmdPath(words, cword, 1, "")), prev)

----------------------------------------------------------------------------
(* The zsh script, as generate_zsh_completion writes it *)

\* One entry of global_opts: the option's names, and what completes its value
\* ("none": a flag, "choices": the listed words, "files": _files)
ZOpt(names, value, choices) == [names |-> names, value |-> value, choices |-> choices]

ZshGlobalOpts == <<
    ZOpt(<<"-f", "--format">>, "choices", <<"table", "json", "compact", "csv">>),
    ZOpt(<<"-v", "--verbose">>, "none", <<>>),
    ZOpt(<<"--no-color">>, "none", <<>>),
    ZOpt(<<"-c", "--config">>, "files", <<>>),
    ZOpt(<<"-i", "--interactive">>, "none", <<>>),
    ZOpt(<<"--dry-run">>, "none", <<>>),
    ZOpt(<<"-h", "--help">>, "none", <<>>) >>

\* state "commands": the array handed to _describe
ZshCommands == <<"file", "network", "system", "governance", "interactive",
                 "service", "status", "guide">>

\* state "args": case $words[2] in ... esac
ZshArgsCases == <<
    [word |-> "file",
     commands |-> <<"put", "get", "list", "search", "batch", "share">>],
    [word |-> "network",
     commands |-> <<"peers", "health", "topology", "bandwidth", "bootstrap">>],
    [word |-> "system",
     commands |-> <<"config", "stats", "storage", "api", "benchmark">>],
    [word |-> "governance",
     commands |-> <<"user", "proposal", "vote", "economics">>],
    [word |-> "service",
     commands |-> <<"start", "stop", "restart", "status", "logs">>] >>

ZshOptionNames == UNION {Range(ZshGlobalOpts[i].names) : i \in 1..Len(ZshGlobalOpts)}

ZshTakesValue(w) ==
    \E i \in 1..Len(ZshGlobalOpts) :
        w \in Range(ZshGlobalOpts[i].names) /\ ZshGlobalOpts[i].value # "none"

ZshOptOf(w) ==
    ZshGlobalOpts[CHOOSE i \in 1..Len(ZshGlobalOpts) : w \in Range(ZshGlobalOpts[i].names)]

RECURSIVE ZshIsValue(_, _)
\* TRUE when word k is consumed as the value of the option before it
ZshIsValue(words, k) ==
    k > 2 /\ ZshTakesValue(words[k - 1]) /\ ~ZshIsValue(words, k - 1)

\* The words before the cursor that _arguments counts as positional arguments:
\* neither an option nor the value of an option that takes one
ZshPositionals(words, cword) ==
    {k \in 2..cword : ~StartsWithDash(words[k]) /\ ~ZshIsValue(words, k)}

\* _datamesh with an empty current word: _arguments completes the value of a
\* global option, or offers the global options and sets $state
ZshCompletion(words, cword) ==
    LET prev == words[cword]
    IN IF cword > 1 /\ ZshTakesValue(prev) /\ ~ZshIsValue(words, cword)
       THEN Reply(Range(ZshOptOf(prev).choices), ZshOptOf(prev).value = "files")
       ELSE IF ZshPositionals(words, cword) = {}
       THEN Reply(Range(ZshCommands) \cup ZshOptionNames, FALSE)
       ELSE IF \E i \in 1..Len(ZshArgsCases) : ZshArgsCases[i].word = words[2]
       THEN LET c == ZshArgsCases[CHOOSE i \in 1..Len(ZshArgsCases) :
                                        ZshArgsCases[i].word = words[2]]
            IN Reply(Range(c.commands) \cup ZshOptionNames, FALSE)
       ELSE Reply(ZshOptionNames, FALSE)

----------------------------------------------------------------------------
(* The fish script, as generate_fish_completion writes it *)

\* One complete statement.  use: -n "__fish_use_subcommand"; seen: the words of
\* its __fish_seen_subcommand_from conditions; arg: -a; short/long: -s/-l;
\* nofiles: -f or -x; needs: -r or -x (the option takes a value); values: -a of
\* an option
FRule(use, seen, arg, short, long, nofiles, needs, values) ==
    [use |-> use, seen |-> seen, arg |-> arg, short |-> short, long |-> long,
     nofiles |-> nofiles, needs |-> needs, values |-> values]
FOpt(seen, short, long, nofiles, needs, values) ==
    FRule(FALSE, seen, "", short, long, nofiles, needs, values)
FMain(a) == FRule(TRUE, {}, a, "", "", TRUE, FALSE, <<>>)
FSub(parent, a) == FRule(FALSE, {parent}, a, "", "", TRUE, FALSE, <<>>)

FishRules == <<
    FOpt({}, "f", "format", TRUE, TRUE, <<"table", "json", "compact", "csv">>),
    FOpt({}, "v", "verbose", FALSE, FALSE, <<>>),
    FOpt({}, "", "no-color", FALSE, FALSE, <<>>),
    FOpt({}, "c", "config", FALSE, TRUE, <<>>),
    FOpt({}, "i", "interactive", FALSE, FALSE, <<>>),
    FOpt({}, "", "dry-run", FALSE, FALSE, <<>>),
    FOpt({}, "h", "help", FALSE, FALSE, <<>>),
    FMain("file"), FMain("network"), FMain("system"), FMain("governance"),
    FMain("interactive"), FMain("service"), FMain("status"), FMain("guide"),
    FSub("file", "put"), FSub("file", "get"), FSub("file", "list"),
    FSub("file", "search"), FSub("file", "batch"), FSub("file", "share"),
    FOpt({"file", "put"}, "", "name", FALSE, FALSE, <<>>),
    FOpt({"file", "put"}, "", "tags", FALSE, FALSE, <<>>),
    FOpt({"file", "put"}, "", "public-key", FALSE, FALSE, <<>>),
    FOpt({"file", "get"}, "o", "output", FALSE, TRUE, <<>>),
    FOpt({"file", "get"}, "", "private-key", FALSE, FALSE, <<>>),
    FSub("network", "peers"), FSub("network", "health"),
    FSub("network", "topology"), FSub("network", "bandwidth"),
    FSub("network", "bootstrap"),
    FSub("system", "config"), FSub("system", "stats"), FSub("system", "storage"),
    FSub("system", "api"), FSub("system", "benchmark"),
    FSub("governance", "user"), FSub("governance", "proposal"),
    FSub("governance", "vote"), FSub("governance", "economics"),
    FSub("service", "start"), FSub("service", "stop"), FSub("service", "restart"),
    FSub("service", "status"), FSub("service", "logs") >>

\* The option words of a rule: -s x is "-x", -l name is "--name"
FishOptionWords(r) ==
    (IF r.short = "" THEN {} ELSE {"-" \o r.short})
        \cup (IF r.long = "" THEN {} ELSE {"--" \o r.long})

\* The -n condition of a rule, on the words typed before the cursor
FishCondition(r, typed) ==
    /\ r.use => \A k \in 1..Len(typed) : StartsWithDash(typed[k])
    /\ \A w \in r.seen : w \in Range(typed)

\* The rules with an empty current word: the value of an option that needs
\* one, else every argument and option whose condition holds
FishCompletion(words, cword) ==
    LET typed == SubSeq(words, 2, cword)
        prev == words[cword]
        live == {i \in 1..Len(FishRules) : FishCondition(FishRules[i], typed)}
        valued == {i \in live : FishRules[i].needs
                                /\ prev \in FishOptionWords(FishRules[i])}
    IN IF cword > 1 /\ valued # {}
       THEN Reply(UNION {Range(FishRules[i].values) : i \in valued},
                  \E i \in valued : ~FishRules[i].nofiles)
       ELSE Reply({FishRules[i].arg : i \in {j \in live : FishRules[j].arg # ""}}
                      \cup UNION {FishOptionWords(FishRules[i]) : i \in live},
                  \A i \in live : FishRules[i].arg # "" => ~FishRules[i].nofiles)

----------------------------------------------------------------------------
(* SpecComplete: TAB presses on command lines *)

Shells == {"bash", "zsh", "fish"}

\* Bound: options typed after the command path
MaxTrail == 1

\* The option words typed after a command path: the global options, and the
\* options the scripts treat apart for "file put" and "file get"
TrailWords == Range(GLOBAL_OPTIONS) \cup {"--name", "--output", "-o", "--private-key"}

RECURSIVE SeqsUpTo(_, _)
SeqsUpTo(S, n) ==
    IF n = 0 THEN {<<>>}
    ELSE LET shorter == SeqsUpTo(S, n - 1)
         IN shorter \cup {Append(t, w) : t \in {u \in shorter : Len(u) = n - 1}, w \in S}

Trails == SeqsUpTo(TrailWords, MaxTrail)

\* Global options typed before or between the command names, the value-taking
\* ones with their value
Insertions == {<<"--verbose">>, <<"--format", "json">>, <<"--config", "datamesh.toml">>}

\* The options typed last on a line that has an insertion
ShortTrails == {<<>>, <<"--format">>, <<"-c">>}

\* A command path with an insertion after its first k names
InsertAt(p, k, x) == SubSeq(p, 1, k) \o x \o SubSeq(p, k + 1, Len(p))

\* The command path typed on the line: the words before the cursor that are
\* command names
TypedWords == SubSeq(COMP_WORDS, 2, COMP_CWORD)
RECURSIVE NamesOf(_)
NamesOf(ws) ==
    IF Len(ws) = 0 THEN <<>>
    ELSE IF StartsWithDash(Head(ws)) THEN NamesOf(Tail(ws))
    ELSE <<Head(ws)>> \o NamesOf(Tail(ws))
TypedPath == NamesOf(TypedWords)
\* TRUE when only command names were typed
PlainLine == TypedWords = TypedPath
PrevWord == COMP_WORDS[COMP_CWORD]

\* The line with command path p and options t typed, and the cursor on a new,
\* empty word
LineOf(p, t) == <<"datamesh">> \o p \o t \o <<"">>

BashTab ==
    /\ "bash" \notin asked
    /\ asked' = asked \cup {"bash"}
    /\ COMPREPLY' = BashCompletion(COMP_WORDS, COMP_CWORD)
    /\ UNCHANGED <<COMP_WORDS, COMP_CWORD, zshReply, fishReply>>
    /\ UNCHANGED svars

ZshTab ==
    /\ "zsh" \notin asked
    /\ asked' = asked \cup {"zsh"}
    /\ zshReply' = ZshCompletion(COMP_WORDS, COMP_CWORD)
    /\ UNCHANGED <<COMP_WORDS, COMP_CWORD, COMPREPLY, fishReply>>
    /\ UNCHANGED svars

FishTab ==
    /\ "fish" \notin asked
    /\ asked' = asked \cup {"fish"}
    /\ fishReply' = FishCompletion(COMP_WORDS, COMP_CWORD)
    /\ UNCHANGED <<COMP_WORDS, COMP_CWORD, COMPREPLY, zshReply>>
    /\ UNCHANGED svars

----------------------------------------------------------------------------
(* The texts the generators return: a text is the sequence of its lines *)

BashCaseLine(c) ==
    c.pat \o ") " \o (IF c.kind = "words" THEN "compgen -W " \o JoinWords(c.words)
                      ELSE "case ${prev}")

BashScriptText ==
    <<"#!/bin/bash",
      "local global_opts=" \o JoinWords(BashGlobalOpts),
      "local commands=" \o JoinWords(BashCommands)>>
    \o [i \in 1..Len(BashPrevCases) |->
            "prev) compgen " \o (IF BashPrevCases[i].files THEN "-f"
                                 ELSE "-W " \o JoinWords(BashPrevCases[i].words))]
    \o [i \in 1..Len(BashPathCases) |-> BashCaseLine(BashPathCases[i])]
    \o <<"complete -F _datamesh_completion datamesh">>

ZshScriptText ==
    <<"#compdef datamesh">>
    \o [i \in 1..Len(ZshGlobalOpts) |->
            JoinWords(ZshGlobalOpts[i].names) \o ":" \o ZshGlobalOpts[i].value
                \o ":" \o JoinWords(ZshGlobalOpts[i].choices)]
    \o <<"commands) " \o JoinWords(ZshCommands)>>
    \o [i \in 1..Len(ZshArgsCases) |->
            ZshArgsCases[i].word \o ") " \o JoinWords(ZshArgsCases[i].commands)]
    \o <<"_datamesh">>

FishScriptText ==
    <<"# DataMesh CLI fish completion">>
    \o [i \in 1..Len(FishRules) |->
            "complete -c datamesh -s " \o FishRules[i].short
                \o " -l " \o FishRules[i].long \o " -a " \o FishRules[i].arg
                \o " " \o JoinWords(FishRules[i].values)]

InstallText ==
    <<"# Shell Completion Installation", "## Bash", "## Zsh", "## Fish", "## Testing">>

\* Mutant of generate_bash_completion: the text carries a stamp of the call
generate_bash_completion_stamped ==
    Append(BashScriptText, "# generated by call " \o ToString(calls))

generate_bash_completion == BashScriptText
generate_zsh_completion == ZshScriptText
generate_fish_completion == FishScriptText

Generators == {"bash", "zsh", "fish"}

Generate(g) ==
    CASE g = "bash" -> generate_bash_completion
      [] g = "zsh" -> generate_zsh_completion
      [] g = "fish" -> generate_fish_completion

----------------------------------------------------------------------------
(* The filesystem and the program's run *)

\* Bounds: runs of the program, generator calls by an importing client, and the
\* lines of a text that reach the file before a write fails
MaxRuns == 2
MaxCalls == 2
MaxPartial == 1

\* The destinations, in the order write_completion_files writes them
Dests == <<"datamesh.bash", "_datamesh", "datamesh.fish", "INSTALL.md">>
DestSet == Range(Dests)

\* The generator behind a destination; INSTALL.md is a literal of the writer
GeneratorOf(d) ==
    CASE d = "datamesh.bash" -> "bash"
      [] d = "_datamesh" -> "zsh"
      [] d = "datamesh.fish" -> "fish"
      [] OTHER -> ""

\* The text write_completion_files hands to f.write for a destination
Text(d) == IF GeneratorOf(d) = "" THEN InstallText ELSE Generate(GeneratorOf(d))

Absent == [exists |-> FALSE, text |-> <<>>]
Holding(t) == [exists |-> TRUE, text |-> t]
OldText == <<"# an earlier completion file">>

\* What completions/ may hold before the first run
InitialListings(d) ==
    IF d = "dir"
    THEN {[x \in DestSet |-> Absent],
          [x \in DestSet |-> Holding(OldText)],
          [x \in DestSet |-> IF x = "datamesh.bash" THEN Holding(OldText) ELSE Absent]}
    ELSE {[x \in DestSet |-> Absent]}

At(a) == [at |-> a, dest |-> ""]
AtDest(a, d) == [at |-> a, dest |-> d]

SuccessMsg == "Shell completion files generated successfully!"
SeeMsg == "See completions/INSTALL.md for installation instructions."

NoTexts == [g \in Generators |-> [set |-> FALSE, text |-> <<>>]]

\* A generator returned text t: the bookkeeping of its first and latest result
NoteCall(g, t) ==
    /\ calls' = calls + 1
    /\ lastText' = [lastText EXCEPT ![g] = [set |-> TRUE, text |-> t]]
    /\ firstText' = IF firstText[g].set THEN firstText
                    ELSE [firstText EXCEPT ![g] = [set |-> TRUE, text |-> t]]

\* An exception leaves write_completion_files and __main__: traceback, exit 1
Raise(kind, d) ==
    /\ pc' = AtDest("exit", d)
    /\ exitCode' = 1
    /\ fault' = kind

Min(a, b) == IF a < b THEN a ELSE b

----------------------------------------------------------------------------
(* Actions of Spec *)

\* python generate_shell_completion.py: __main__ calls write_completion_files
StartRun ==
    /\ pc.at \in {"shell", "exit"}
    /\ runs < MaxRuns
    /\ runs' = runs + 1
    /\ prevOk' = (pc.at = "exit" /\ exitCode = 0)
    /\ pc' = At("mkdir")
    /\ stdout' = <<>>
    /\ before' = files
    /\ attempted' = {}
    /\ fault' = "none"
    /\ UNCHANGED <<dir, files, exitCode, lastOk, calls, firstText, lastText>>

\* Mutant of Mkdir: mkdir() without exist_ok, an existing directory raises
MkdirNoExistOk ==
    /\ pc = At("mkdir")
    /\ \/ /\ dir = "absent"
          /\ dir' = "dir"
          /\ pc' = AtDest("open", Dests[1])
          /\ UNCHANGED <<exitCode, fault>>
       \/ /\ dir = "absent"
          /\ Raise("mkdir", "")
          /\ UNCHANGED dir
       \/ /\ dir \in {"dir", "file"}
          /\ Raise("exists", "")
          /\ UNCHANGED dir
    /\ UNCHANGED <<files, stdout, runs, before, lastOk, prevOk, attempted,
                   calls, firstText, lastText>>

\* completions_dir.mkdir(exist_ok=True): an existing directory is accepted, a
\* non-directory of that name raises FileExistsError, and creating it can fail
Mkdir ==
    /\ pc = At("mkdir")
    /\ \/ /\ dir = "dir"
          /\ pc' = AtDest("open", Dests[1])
          /\ UNCHANGED <<dir, exitCode, fault>>
       \/ /\ dir = "absent"
          /\ dir' = "dir"
          /\ pc' = AtDest("open", Dests[1])
          /\ UNCHANGED <<exitCode, fault>>
       \/ /\ dir = "absent"
          /\ Raise("mkdir", "")
          /\ UNCHANGED dir
       \/ /\ dir = "file"
          /\ Raise("exists", "")
          /\ UNCHANGED dir
    /\ UNCHANGED <<files, stdout, runs, before, lastOk, prevOk, attempted,
                   calls, firstText, lastText>>

\* open(file, "w"): creates the file or truncates it to nothing, or raises
OpenDest(d) ==
    /\ pc = AtDest("open", d)
    /\ attempted' = attempted \cup {d}
    /\ \/ /\ files' = [files EXCEPT ![d] = Holding(<<>>)]
          /\ pc' = AtDest("write", d)
          /\ UNCHANGED <<exitCode, fault>>
       \/ /\ Raise("open", d)
          /\ UNCHANGED files
    /\ UNCHANGED <<dir, stdout, runs, before, lastOk, prevOk, calls, firstText, lastText>>

\* Mutant of WriteDest: a failed write is swallowed and the run goes on
WriteDestSwallowed(d) ==
    /\ pc = AtDest("write", d)
    /\ LET t == Text(d)
       IN /\ IF GeneratorOf(d) = "" THEN UNCHANGED <<calls, firstText, lastText>>
             ELSE NoteCall(GeneratorOf(d), t)
          /\ \/ files' = [files EXCEPT ![d] = Holding(t)]
             \/ \E k \in 0..Min(MaxPartial, Len(t) - 1) :
                   files' = [files EXCEPT ![d] = Holding(SubSeq(t, 1, k))]
          /\ pc' = AtDest("report", d)
          /\ UNCHANGED <<exitCode, fault>>
    /\ UNCHANGED <<dir, stdout, runs, before, lastOk, prevOk, attempted>>

\* f.write(generate_..._completion()) and the close that ends the with block:
\* the whole text reaches the file, or the write fails part-way and raises
WriteDest(d) ==
    /\ pc = AtDest("write", d)
    /\ LET t == Text(d)
       IN /\ IF GeneratorOf(d) = "" THEN UNCHANGED <<calls, firstText, lastText>>
             ELSE NoteCall(GeneratorOf(d), t)
          /\ \/ /\ files' = [files EXCEPT ![d] = Holding(t)]
                /\ pc' = AtDest("report", d)
                /\ UNCHANGED <<exitCode, fault>>
             \/ /\ \E k \in 0..Min(MaxPartial, Len(t) - 1) :
                      files' = [files EXCEPT ![d] = Holding(SubSeq(t, 1, k))]
                /\ Raise("write", d)
    /\ UNCHANGED <<dir, stdout, runs, before, lastOk, prevOk, attempted>>

\* The line printed once a destination is written
ReportLine(d) ==
    (CASE d = "datamesh.bash" -> "Generated bash completion: "
       [] d = "_datamesh" -> "Generated zsh completion: "
       [] d = "datamesh.fish" -> "Generated fish completion: "
       [] OTHER -> "Generated installation instructions: ") \o "completions/" \o d

\* print(f"Generated ... completion: {file}"), then on to the next destination
ReportDest(d) ==
    /\ pc = AtDest("report", d)
    /\ stdout' = Append(stdout, ReportLine(d))
    /\ LET i == CHOOSE k \in 1..Len(Dests) : Dests[k] = d
       IN pc' = IF i < Len(Dests) THEN AtDest("open", Dests[i + 1]) ELSE At("return")
    /\ UNCHANGED <<dir, files, exitCode, runs, before, lastOk, prevOk, attempted,
                   fault, calls, firstText, lastText>>

\* write_completion_files returned: __main__ prints the two closing lines and
\* the process exits with status 0
Finish ==
    /\ pc = At("return")
    /\ stdout' = stdout \o <<SuccessMsg, SeeMsg>>
    /\ exitCode' = 0
    /\ pc' = At("exit")
    /\ lastOk' = [dir |-> dir, files |-> files]
    /\ UNCHANGED <<dir, files, runs, before, prevOk, attempted, fault,
                   calls, firstText, lastText>>

\* An importing client calls one of the generators, between runs
CallGenerator(g) ==
    /\ pc.at \in {"shell", "exit"}
    /\ calls < MaxCalls
    /\ NoteCall(g, Generate(g))
    /\ UNCHANGED <<pc, dir, files, stdout, exitCode, runs, before, lastOk, prevOk,
                   attempted, fault>>

----------------------------------------------------------------------------
(* Specifications *)

QInit ==
    /\ asked = {}
    /\ COMP_WORDS = <<"datamesh", "">>
    /\ COMP_CWORD = 1
    /\ COMPREPLY = NoArray
    /\ zshReply = NoReply
    /\ fishReply = NoReply

SInit ==
    /\ pc = At("shell")
    /\ dir \in {"absent", "dir", "file"}
    /\ files \in InitialListings(dir)
    /\ stdout = <<>>
    /\ exitCode = 0
    /\ runs = 0
    /\ before = files
    /\ lastOk = [dir |-> dir, files |-> files]
    /\ prevOk = FALSE
    /\ attempted = {}
    /\ fault = "none"
    /\ calls = 0
    /\ firstText = NoTexts
    /\ lastText = NoTexts

Init == QInit /\ SInit

Next ==
    \/ StartRun /\ UNCHANGED qvars
    \/ Mkdir /\ UNCHANGED qvars
    \/ \E d \in DestSet : OpenDest(d) /\ UNCHANGED qvars
    \/ \E d \in DestSet : WriteDest(d) /\ UNCHANGED qvars
    \/ \E d \in DestSet : ReportDest(d) /\ UNCHANGED qvars
    \/ Finish /\ UNCHANGED qvars
    \/ \E g \in Generators : CallGenerator(g) /\ UNCHANGED qvars

Spec == Init /\ [][Next]_vars

\* A command line is typed (a command path of the table, then options; or a
\* command path with a global option before or between its names) and TAB is
\* pressed in each shell; no run of the program is in progress
InitComplete ==
    /\ SInit
    /\ dir = "absent"
    /\ asked = {}
    /\ \/ \E p \in CommandPaths, t \in Trails :
             /\ COMP_WORDS = LineOf(p, t)
             /\ COMP_CWORD = 1 + Len(p) + Len(t)
       \/ \E p \in CommandPaths, x \in Insertions, t \in ShortTrails :
             \E k \in 0..Len(p) :
                /\ COMP_WORDS = LineOf(InsertAt(p, k, x), t)
                /\ COMP_CWORD = 1 + Len(p) + Len(x) + Len(t)
    /\ COMPREPLY = NoArray
    /\ zshReply = NoReply
    /\ fishReply = NoReply

NextComplete ==
    \/ BashTab
    \/ ZshTab
    \/ FishTab

SpecComplete == InitComplete /\ [][NextComplete]_vars

----------------------------------------------------------------------------
(* Claims about the completion the scripts encode (SpecComplete) *)

AllAnswered == asked = Shells

\* C1: cross-shell equivalence.  For every command path of the table typed on
\* the line, the bash, the zsh and the fish script offer the same set of
\* candidates (the same words, and file names in all or in none).
C1_CrossShellEquivalence ==
    (AllAnswered /\ PlainLine /\ TypedPath \in CommandPaths) =>
        /\ Range(COMPREPLY.words) = zshReply.words
        /\ zshReply.words = fishReply.words
        /\ COMPREPLY.files = zshReply.files
        /\ zshReply.files = fishReply.files

\* C2: for every leaf command of the table, the bash script has a case branch
\* for the leaf's command path, and the words it offers there are exactly the
\* leaf's declared options plus the global options, with no subcommand name.
C2_LeafBranchOffersItsOptions ==
    ("bash" \in asked /\ PlainLine /\ TypedPath \in LeafPaths) =>
        /\ BashHasBranch(JoinWords(TypedPath))
        /\ Range(COMPREPLY.words) =
               Range(Resolve(TypedPath).options) \cup Range(GLOBAL_OPTIONS)
        /\ Range(COMPREPLY.words) \cap AllNames = {}

\* C3: in the bash script the global options are offered at the root and at
\* every group path, and at no value completion: the candidates for the value
\* of --format/-f and of --config/-c hold no global option.
C3_GlobalOptionsAtEveryGroup ==
    /\ ("bash" \in asked /\ PlainLine /\ TypedPath \in GroupPaths) =>
           Range(GLOBAL_OPTIONS) \subseteq Range(COMPREPLY.words)
    /\ ("bash" \in asked /\ PrevWord \in {"--format", "-f", "--config", "-c"}) =>
           Range(COMPREPLY.words) \cap Range(GLOBAL_OPTIONS) = {}

FormatChoices == {"table", "json", "compact", "csv"}

\* TRUE when the word before the cursor is --format or -f, typed as an option
FormatPending ==
    /\ COMP_CWORD > 1
    /\ PrevWord \in {"--format", "-f"}
    /\ ~ZshIsValue(COMP_WORDS, COMP_CWORD)

\* C4: round trip on value choices.  --format and its short form -f are named
\* in each of the three scripts, and the values each script offers for them are
\* exactly table, json, compact and csv: none missing, none added, no file name.
C4_FormatValuesRoundTrip ==
    /\ {"--format", "-f"} \subseteq Range(BashGlobalOpts)
    /\ {"--format", "-f"} \subseteq ZshOptionNames
    /\ \E i \in 1..Len(FishRules) : FishOptionWords(FishRules[i]) = {"--format", "-f"}
    /\ ("bash" \in asked /\ FormatPending) => COMPREPLY = Reply(COMPREPLY.words, FALSE)
    /\ ("bash" \in asked /\ FormatPending) =>
           (Range(COMPREPLY.words) = FormatChoices /\ Len(COMPREPLY.words) = 4)
    /\ ("zsh" \in asked /\ FormatPending) => zshReply = Reply(FormatChoices, FALSE)
    /\ ("fish" \in asked /\ FormatPending) => fishReply = Reply(FormatChoices, FALSE)

C4_Witness ==
    /\ AllAnswered
    /\ FormatPending
    /\ TypedPath = <<"system", "api", "docs">>
    /\ Range(COMPREPLY.words) = FormatChoices
    /\ zshReply.words = FormatChoices
    /\ fishReply.words = FormatChoices

\* The words the bash script is to list at a group path: the names of the
\* node's children in the table's order; at the root, followed by the global
\* options
GroupWords(p) ==
    IF p = <<>> THEN Names(COMMANDS) \o GLOBAL_OPTIONS
    ELSE Names(Resolve(p).subcommands)

\* C10 as stated: every group path, the root included, has a bash case branch
\* for its space-joined path whose word list is exactly the names of the
\* node's children, in the table's order.
C10_GroupBranchListsChildrenOnly ==
    ("bash" \in asked /\ PlainLine /\ TypedPath \in GroupPaths) =>
        /\ BashHasBranch(JoinWords(TypedPath))
        /\ COMPREPLY = Reply(Names(Resolve(TypedPath).subcommands), FALSE)

\* C10, amended: every group path has a bash case branch for its space-joined
\* path whose word list is exactly the names of the node's children, in the
\* table's order; the root branch lists the top-level keys of the table in
\* order, followed by the global options.
C10_GroupBranchListsChildren ==
    ("bash" \in asked /\ PlainLine /\ TypedPath \in GroupPaths) =>
        /\ BashHasBranch(JoinWords(TypedPath))
        /\ COMPREPLY = Reply(GroupWords(TypedPath), FALSE)

C10_Witness ==
    /\ "bash" \in asked
    /\ PlainLine
    /\ TypedPath = <<"system", "config">>
    /\ COMPREPLY.words = <<"show", "set", "get", "init", "validate">>

\* The command names typed before the cursor: the words that are neither an
\* option nor the value of a global option that takes one
RECURSIVE CommandNamesOf(_, _)
CommandNamesOf(ws, afterValued) ==
    IF Len(ws) = 0 THEN <<>>
    ELSE IF StartsWithDash(Head(ws))
    THEN CommandNamesOf(Tail(ws), Head(ws) \in {"--format", "-f", "--config", "-c"})
    ELSE IF afterValued THEN CommandNamesOf(Tail(ws), FALSE)
    ELSE <<Head(ws)>> \o CommandNamesOf(Tail(ws), FALSE)
TypedCommands == CommandNamesOf(TypedWords, FALSE)

\* C11: in the bash function the value completion of a global option comes
\* before the dispatch on the command path.  Whenever the previous word is
\* --format or -f the candidates are exactly table, json, compact, csv, and
\* whenever it is --config or -c the candidates are file names, whatever was
\* typed before it; no subcommand name and no option is offered.
C11_ValueCompletionFirst ==
    ("bash" \in asked /\ COMP_CWORD > 1) =>
        /\ PrevWord \in {"--format", "-f"} =>
               COMPREPLY = Reply(<<"table", "json", "compact", "csv">>, FALSE)
        /\ PrevWord \in {"--config", "-c"} => COMPREPLY = Reply(<<>>, TRUE)
        /\ PrevWord \in {"--format", "-f", "--config", "-c"} =>
               Range(COMPREPLY.words) \cap (AllNames \cup DashWords) = {}

C11_Witness ==
    /\ "bash" \in asked
    /\ COMP_WORDS = <<"datamesh", "--verbose", "file", "batch", "-c", "">>
    /\ COMPREPLY = Reply(<<>>, TRUE)

\* C12: in the bash function the command path accumulated by the loop over
\* COMP_WORDS[1 .. COMP_CWORD-1] is exactly the space-joined sequence of the
\* command names typed so far: neither options nor the value words of
\* value-taking options enter it, so a line whose command names are a group's
\* path is dispatched to that group's branch.
C12_CmdPathIsCommandNames ==
    "bash" \in asked =>
        /\ BashCmdPath(COMP_WORDS, COMP_CWORD, 1, "") = JoinWords(TypedCommands)
        /\ (/\ TypedCommands \in GroupPaths
            /\ PrevWord \notin {"--format", "-f", "--config", "-c"}) =>
               COMPREPLY = Reply(GroupWords(TypedCommands), FALSE)

----------------------------------------------------------------------------
(* Claims about the run of the program (Spec) *)

RunEnded == runs > 0 /\ pc.at = "exit"
Written(d) == files[d] = Holding(Text(d))

\* C5: a failure while writing one destination is fatal to that destination
\* only.  When opening or writing completions/datamesh.bash fails, the writes
\* of completions/_datamesh and completions/datamesh.fish are still attempted
\* before the run ends.
C5_FailureIsPerDestination ==
    (RunEnded /\ fault \in {"open", "write"} /\ pc.dest = "datamesh.bash") =>
        {"_datamesh", "datamesh.fish"} \subseteq attempted

\* C6: writes are all-or-nothing per destination.  At every point of a run,
\* each destination holds what it held when the run started (or is absent, if
\* it was) or the complete new text, never an empty or truncated content.
C6_WritesAreAllOrNothing ==
    \A d \in DestSet : files[d] = before[d] \/ Written(d)

\* C7: the run reports success (the closing message, exit status 0) only when
\* completions/ is a directory and the four destinations each hold the whole
\* text handed to their write; and a run in which the creation of the
\* directory or any open or write failed ends with a non-zero exit status and
\* without the closing message.
C7_SuccessOnlyWhenAllWritten ==
    /\ (RunEnded /\ (exitCode = 0 \/ SuccessMsg \in Range(stdout))) =>
           /\ dir = "dir"
           /\ \A d \in DestSet : Written(d)
           /\ fault = "none"
    /\ (RunEnded /\ fault # "none") =>
           /\ exitCode # 0
           /\ SuccessMsg \notin Range(stdout)

C7_Witness ==
    /\ RunEnded
    /\ exitCode = 0
    /\ SuccessMsg \in Range(stdout)
    /\ \A d \in DestSet : before[d] = Absent /\ Written(d)

\* C8: idempotence of the sink.  A run that follows a successful run and
\* reaches its end leaves completions/ and the four files exactly as the
\* first run left them; and a run that follows a successful run fails only
\* on an I/O failure of its own, never because the directory or a file exists.
C8_SecondRunChangesNothing ==
    /\ (prevOk /\ pc.at \in {"return", "exit"} /\ fault = "none") =>
           /\ [dir |-> dir, files |-> files] = lastOk
           /\ \A d \in DestSet : files[d] = before[d]
    /\ (prevOk /\ RunEnded /\ exitCode # 0) => fault \in {"open", "write"}

C8_Witness ==
    /\ prevOk
    /\ RunEnded
    /\ runs = 2
    /\ exitCode = 0
    /\ [dir |-> dir, files |-> files] = lastOk
    /\ \A d \in DestSet : Written(d)

\* C9: determinism.  Every call of a generator, by a client or by
\* write_completion_files, in any order and after any number of calls and
\* runs, returns the text its first call returned.
C9_GeneratorsAreDeterministic ==
    \A g \in Generators :
        firstText[g].set => (lastText[g].set /\ lastText[g].text = firstText[g].text)

C9_Witness ==
    /\ calls >= 4
    /\ runs >= 1
    /\ \A g \in Generators : firstText[g].set
    /\ lastText["bash"].text = generate_bash_completion

====
